---------------------------- MODULE Spec2Model ----------------------------
(***************************************************************************)
(* A model of the FlatBuffers Python runtime: the Builder                  *)
(* (python/flatbuffers/builder.py), the Table reader                       *)
(* (python/flatbuffers/table.py) and the scalar descriptors                *)
(* (python/flatbuffers/number_types.py).                                   *)
(*                                                                         *)
(* A Builder is a record holding the fields of Builder.__slots__.  Every   *)
(* method is an operator from a Builder record (and the arguments) to the  *)
(* Builder record after the call.  A raised exception is recorded in the   *)
(* field err: once err is set, the rest of the method is skipped, which is *)
(* what the propagation of a Python exception does; the fields assigned    *)
(* before the raise keep their new values.  The field ret is the value the *)
(* call returned.  Byte positions are 0-based as in the source: position p *)
(* of the bytearray is element p + 1 of the sequence Bytes.                *)
(***************************************************************************)
EXTENDS Integers, Sequences, FiniteSets, TLC

(***************************************************************************)
(* Bounds of the exploration.                                              *)
(***************************************************************************)
\* the number of Builder calls of one run of Spec
MaxOps == 4
\* the number of Builder calls of one run of SpecObj
MaxObjOps == 9
\* the number of Builder calls of one run of SpecMisuse
MaxMisuseOps == 3
\* the number of Builder calls of one run of SpecSize
MaxSizeOps == 4
\* the largest initial size of the Builder of scenario S1
MaxS1Size == 40
\* the number of Builder calls of one run of SpecStr
MaxStrOps == 6
\* the number of strings created in one run of SpecStr
MaxStrings == 2
\* the largest slot number a reader asks for
MaxReadSlot == 4
\* the number of Builder calls of one run of SpecRange
MaxRangeOps == 2
\* the number of Builder calls of one run of SpecPrep
MaxPrepOps == 3
\* the number of Builder calls of one run of SpecGrow
MaxGrowOps == 3
\* the number of Builder calls of one run of SpecVec
MaxVecOps == 6

(***************************************************************************)
(* Program constants.                                                      *)
(***************************************************************************)
\* builder.py:48
VtableMetadataFields == 2
\* builder.py:232, the smallest buffer growByteBuffer allocates
MinGrowSize == 1024
\* builder.py:78, the default of initialSize
DefaultInitialSize == 1024

\* Python's None for an integer field (objectEnd, a return value)
NoInt == -1
\* Python's None for current_vtable: no list of offsets holds a negative
NoVtable == <<-1>>

Max(x, y) == IF x >= y THEN x ELSE y

(***************************************************************************)
(* Python integers are unbounded, TLC's end at 2^31 - 1.  A size that may  *)
(* reach 2^31 is held as <<hi, lo>>, the integer hi * 2^16 + lo with       *)
(* 0 <= lo < 2^16.                                                         *)
(***************************************************************************)
WNorm(hi, lo) == <<hi + (lo \div 65536), lo % 65536>>
\* the integer n of TLC as a wide integer
WInt(n) == WNorm(0, n)
WAdd(x, y) == WNorm(x[1] + y[1], x[2] + y[2])
WSub(x, y) == WNorm(x[1] - y[1], x[2] - y[2])
WLeq(x, y) == x[1] < y[1] \/ (x[1] = y[1] /\ x[2] <= y[2])
WLess(x, y) == ~WLeq(y, x)
WMax(x, y) == IF WLeq(y, x) THEN x ELSE y

\* Builder.MAX_BUFFER_SIZE = 2**31
MAX_BUFFER_SIZE == <<32768, 0>>

(***************************************************************************)
(* number_types.py: the scalar kinds.  The float kinds are left out: their *)
(* bit patterns are not integers.                                          *)
(***************************************************************************)
ScalarKinds ==
  {"bool", "uint8", "uint16", "uint32", "uint64",
   "int8", "int16", "int32", "int64"}

bytewidth(k) ==
  CASE k \in {"bool", "uint8", "int8"} -> 1
    [] k \in {"uint16", "int16"}       -> 2
    [] k \in {"uint32", "int32"}       -> 4
    [] k \in {"uint64", "int64"}       -> 8

Signed(k) == k \in {"int8", "int16", "int32", "int64"}

\* TypeFlags.valid_number: min_val <= n <= max_val.  A limit beyond the
\* integers TLC represents (|n| < 2^31) is met by every n of the model.
valid_number(k, n) ==
  CASE k = "bool"   -> n \in {0, 1}
    [] k = "uint8"  -> 0 <= n /\ n <= 255
    [] k = "uint16" -> 0 <= n /\ n <= 65535
    [] k = "uint32" -> 0 <= n
    [] k = "uint64" -> 0 <= n
    [] k = "int8"   -> -128 <= n /\ n <= 127
    [] k = "int16"  -> -32768 <= n /\ n <= 32767
    [] k = "int32"  -> TRUE
    [] k = "int64"  -> TRUE

SOffsetTFlags == "int32"
UOffsetTFlags == "uint32"
VOffsetTFlags == "uint16"

(***************************************************************************)
(* The byte codec (encode.Get and encode.Write of a packer): little-endian *)
(* two's complement of the kind's width.                                   *)
(***************************************************************************)
RECURSIVE LEBytes(_, _)
\* the w low bytes of x, least significant first; \div rounds down, so a
\* negative x is sign-extended
LEBytes(x, w) ==
  IF w = 0 THEN <<>> ELSE <<x % 256>> \o LEBytes(x \div 256, w - 1)

RECURSIVE LEValue(_, _, _)
\* the integer whose w low bytes are bs[1..w], the top byte taken as signed
\* when sgn
LEValue(bs, w, sgn) ==
  IF w = 1
    THEN IF sgn /\ bs[1] >= 128 THEN bs[1] - 256 ELSE bs[1]
    ELSE bs[1] + 256 * LEValue(Tail(bs), w - 1, sgn)

\* Python's buf[lo:hi] for 0 <= lo: the positions lo..hi-1 that exist
Slice(buf, lo, hi) ==
  LET h == IF hi > Len(buf) THEN Len(buf) ELSE hi
  IN  IF lo >= h THEN <<>> ELSE SubSeq(buf, lo + 1, h)

\* encode.Get(packer, buf, pos)
Get(k, buf, pos) ==
  LEValue(SubSeq(buf, pos + 1, pos + bytewidth(k)), bytewidth(k), Signed(k))

\* the position pack_into writes at: a negative offset counts from the end
PackPos(buf, pos) == IF pos < 0 THEN pos + Len(buf) ELSE pos

\* whether packer.pack_into accepts x at pos: the value fits the format and
\* the bytes lie in the buffer
Packable(k, buf, pos, x) ==
  /\ valid_number(k, x)
  /\ 0 <= PackPos(buf, pos)
  /\ PackPos(buf, pos) + bytewidth(k) <= Len(buf)

\* encode.Write(packer, buf, pos, x): the buffer after the write
Write(k, buf, pos, x) ==
  LET p == PackPos(buf, pos)
  IN  SubSeq(buf, 1, p) \o LEBytes(x, bytewidth(k))
        \o SubSeq(buf, p + bytewidth(k) + 1, Len(buf))

(***************************************************************************)
(* Bit operations of Prep on the 16 low bits (every size of the model is   *)
(* below 2^16, so the bits above do not reach the result).                 *)
(***************************************************************************)
RECURSIVE BitAnd(_, _)
BitAnd(x, y) ==
  IF x = 0 \/ y = 0 THEN 0
  ELSE (x % 2) * (y % 2) + 2 * BitAnd(x \div 2, y \div 2)

\* (~v) + 1, the two's complement negation of v, on the 16 low bits
NegBits(v) == (65536 - (v % 65536)) % 65536

(***************************************************************************)
(* builder.py: class Builder.                                              *)
(***************************************************************************)
\* bytearray(n): n zero bytes
Zeros(n) == [i \in 1..n |-> 0]

\* Builder.__init__ for 0 <= initialSize <= MAX_BUFFER_SIZE.  The last three
\* fields are history, which no method reads: pads, the Offsets-from-tail of
\* the bytes Prep skipped as padding in the last call; grows, the buffer
\* before and after each growth of the last call; sizes, the sizes Prep was
\* passed since the Builder was constructed or Reset.
Builder(initialSize) ==
  [Bytes          |-> Zeros(initialSize),
   current_vtable |-> NoVtable,
   head           |-> initialSize,
   minalign       |-> 1,
   objectEnd      |-> NoInt,
   vtables        |-> <<>>,
   err            |-> "none",
   ret            |-> NoInt,
   pads           |-> {},
   grows          |-> <<>>,
   sizes          |-> {}]

Ok(b) == b.err = "none"
Raise(b, e) == [b EXCEPT !.err = e]

\* the state a call starts from: nothing raised, nothing returned yet
Call(b) == [b EXCEPT !.err = "none", !.ret = NoInt, !.pads = {}, !.grows = <<>>]

\* Builder.Offset
Offset(b) == Len(b.Bytes) - b.head

\* Builder.Output
Output(b) == Slice(b.Bytes, b.head, Len(b.Bytes))

\* Builder.Reset
Reset(b) ==
  [b EXCEPT !.vtables = <<>>, !.current_vtable = NoVtable,
            !.head = Len(b.Bytes), !.minalign = 1, !.objectEnd = NoInt]

\* a faulty growByteBuffer, which C1 must tell from the code's: head is not
\* moved with the content
growByteBufferKeepingHead(b, freeSize) ==
  LET oldSize == Len(b.Bytes)
      newSize == Max(MinGrowSize, Max(oldSize * 2, oldSize + freeSize - b.head))
  IN  IF WLeq(MAX_BUFFER_SIZE, WInt(newSize))
        THEN Raise(b, "BuilderSizeError")
        ELSE [b EXCEPT !.Bytes = Zeros(newSize - oldSize) \o b.Bytes]

\* a faulty growByteBuffer, which C8 must tell from the code's: the old
\* content is copied to the front of the new buffer
growByteBufferToFront(b, freeSize) ==
  LET oldSize == Len(b.Bytes)
      newSize == Max(MinGrowSize, Max(oldSize * 2, oldSize + freeSize - b.head))
  IN  IF WLeq(MAX_BUFFER_SIZE, WInt(newSize))
        THEN Raise(b, "BuilderSizeError")
        ELSE LET newBytes == b.Bytes \o Zeros(newSize - oldSize)
                 newHead == b.head + newSize - oldSize
             IN  [b EXCEPT !.Bytes = newBytes,
                           !.head = newHead,
                           !.grows = Append(@, [oldBytes |-> b.Bytes,
                                                oldHead  |-> b.head,
                                                newBytes |-> newBytes,
                                                newHead  |-> newHead])]

\* growByteBuffer that only doubles the buffer
growByteBufferDoubling(b, freeSize) ==
  LET oldSize == Len(b.Bytes)
      newSize == Max(MinGrowSize, oldSize * 2)
  IN  IF WLeq(MAX_BUFFER_SIZE, WInt(newSize))
        THEN Raise(b, "BuilderSizeError")
        ELSE LET newBytes == Zeros(newSize - oldSize) \o b.Bytes
                 newHead == b.head + (newSize - oldSize)
             IN  [b EXCEPT !.Bytes = newBytes,
                           !.head = newHead,
                           !.grows = Append(@, [oldBytes |-> b.Bytes,
                                                oldHead  |-> b.head,
                                                newBytes |-> newBytes,
                                                newHead  |-> newHead])]

\* Builder.growByteBuffer: newBytes = bytearray(newSize), then
\* newBytes[newSize - oldSize:] = self.Bytes
growByteBuffer(b, freeSize) ==
  LET oldSize == Len(b.Bytes)
      newSize == Max(MinGrowSize, Max(oldSize * 2, oldSize + freeSize - b.head))
  IN  IF WLeq(MAX_BUFFER_SIZE, WInt(newSize))
        THEN Raise(b, "BuilderSizeError")
        ELSE LET newBytes == Zeros(newSize - oldSize) \o b.Bytes
                 newHead == b.head + (newSize - oldSize)
             IN  [b EXCEPT !.Bytes = newBytes,
                           !.head = newHead,
                           !.grows = Append(@, [oldBytes |-> b.Bytes,
                                                oldHead  |-> b.head,
                                                newBytes |-> newBytes,
                                                newHead  |-> newHead])]

\* Builder.Pad
Pad(b, n) ==
  IF ~Ok(b) THEN b
  ELSE [b EXCEPT !.Bytes = SubSeq(@, 1, b.head - n) \o Zeros(n)
                              \o SubSeq(@, b.head + 1, Len(@)),
                 !.head = b.head - n]

\* Builder.Prep
Prep(b, size, additionalBytes) ==
  IF ~Ok(b) THEN b
  ELSE
    LET alignSize ==
          BitAnd(NegBits(Len(b.Bytes) - b.head + additionalBytes), size - 1)
        \* self.head -= alignSize, no byte written
        Skip(b2) ==
          IF ~Ok(b2) THEN b2
          ELSE [b2 EXCEPT !.head = b2.head - alignSize,
                          !.pads = @ \cup {Len(b2.Bytes) - p :
                                             p \in (b2.head - alignSize)..(b2.head - 1)}]
        \* if self.head < alignSize + size + additionalBytes: grow
        Fit(b1, totalSize) ==
          Skip(IF b1.head < totalSize THEN growByteBuffer(b1, totalSize) ELSE b1)
    IN  Fit([b EXCEPT !.sizes = @ \cup {size},
                      !.minalign = IF size > @ THEN size ELSE @],
            alignSize + size + additionalBytes)

\* Builder.Place: encode.Write at head - bytewidth
Place(b, x, k) ==
  IF ~Ok(b) THEN b
  ELSE LET head == b.head - bytewidth(k)
       IN  IF ~Packable(k, b.Bytes, head, x)
             THEN Raise(b, "struct.error")
             ELSE [b EXCEPT !.Bytes = Write(k, @, head, x), !.head = head]

\* Builder.PlaceBool, Builder.PlaceUint8: Bytes[head] = x, which a bytearray
\* accepts for 0 <= x <= 255
PlaceUint8(b, x) ==
  IF ~Ok(b) THEN b
  ELSE LET head == b.head - 1
           p == PackPos(b.Bytes, head)
       IN  IF ~(0 <= p /\ p < Len(b.Bytes)) THEN Raise(b, "IndexError")
           ELSE IF ~(0 <= x /\ x <= 255) THEN Raise(b, "ValueError")
           ELSE [b EXCEPT !.Bytes = [@ EXCEPT ![p + 1] = x], !.head = head]

\* Builder.PlaceInt8: Bytes[head] = x & 0xff
PlaceInt8(b, x) ==
  IF ~Ok(b) THEN b
  ELSE LET head == b.head - 1
           p == PackPos(b.Bytes, head)
       IN  IF ~(0 <= p /\ p < Len(b.Bytes)) THEN Raise(b, "IndexError")
           ELSE [b EXCEPT !.Bytes = [@ EXCEPT ![p + 1] = x % 256],
                          !.head = head]

\* Builder.Prepend and the Prepend<K> methods
Prepend(b, k, x) ==
  CASE k \in {"bool", "uint8"} -> PlaceUint8(Prep(b, 1, 0), x)
    [] k = "int8"              -> PlaceInt8(Prep(b, 1, 0), x)
    [] OTHER                   -> Place(Prep(b, bytewidth(k), 0), x, k)

\* a faulty assertNotNested, which C12 must tell from the code's: it never
\* raises
assertNotNestedNever(b) == b

\* Builder.assertNotNested
assertNotNested(b) ==
  IF ~Ok(b) THEN b
  ELSE IF b.current_vtable # NoVtable THEN Raise(b, "ObjectIsNestedError") ELSE b

\* Builder.assertNested
assertNested(b, obj) ==
  IF ~Ok(b) THEN b
  ELSE IF obj # Offset(b) THEN Raise(b, "StructIsNotInlineError") ELSE b

\* Builder.StartObject
StartObject(b, numfields) ==
  LET b1 == assertNotNested(b)
  IN  IF ~Ok(b1) THEN b1
      ELSE [b1 EXCEPT !.current_vtable = [i \in 1..numfields |-> 0],
                      !.objectEnd = Offset(b1),
                      !.minalign = 1]

\* Builder.Slot: current_vtable[slotnum] = Offset(), a Python list index
Slot(b, slotnum) ==
  IF ~Ok(b) THEN b
  ELSE IF b.current_vtable = NoVtable THEN Raise(b, "NotInObjectError")
  ELSE LET n == Len(b.current_vtable)
           idx == IF slotnum < 0 THEN slotnum + n ELSE slotnum
       IN  IF idx < 0 \/ idx >= n THEN Raise(b, "IndexError")
           ELSE [b EXCEPT !.current_vtable[idx + 1] = Offset(b)]

\* a faulty PrependSOffsetTRelative, which C14 must tell from the code's: a
\* negative difference is not refused
PrependSOffsetTRelativeUnchecked(b, off) ==
  LET Relative(b1) ==
        IF ~Ok(b1) THEN b1
        ELSE Place(b1, Offset(b1) - off + bytewidth(SOffsetTFlags),
                   SOffsetTFlags)
  IN  Relative(Prep(b, bytewidth(SOffsetTFlags), 0))

\* Builder.PrependSOffsetTRelative
PrependSOffsetTRelative(b, off) ==
  LET Relative(b1) ==
        IF ~Ok(b1) THEN b1
        ELSE LET off2 == Offset(b1) - off
             IN  IF ~(off2 >= 0) THEN Raise(b1, "OffsetArithmeticError")
                 ELSE Place(b1, off2 + bytewidth(SOffsetTFlags), SOffsetTFlags)
  IN  Relative(Prep(b, bytewidth(SOffsetTFlags), 0))

\* a faulty PrependUOffsetTRelative, which C7 must tell from the code's: the
\* offset written does not count the UOffsetT itself
PrependUOffsetTRelativeShort(b, off) ==
  LET Relative(b1) ==
        IF ~Ok(b1) THEN b1
        ELSE LET off2 == Offset(b1) - off
             IN  IF ~(off2 >= 0) THEN Raise(b1, "OffsetArithmeticError")
                 ELSE Place(b1, off2, UOffsetTFlags)
  IN  Relative(Prep(b, bytewidth(UOffsetTFlags), 0))

\* Builder.PrependUOffsetTRelative
PrependUOffsetTRelative(b, off) ==
  LET Relative(b1) ==
        IF ~Ok(b1) THEN b1
        ELSE LET off2 == Offset(b1) - off
             IN  IF ~(off2 >= 0) THEN Raise(b1, "OffsetArithmeticError")
                 ELSE Place(b1, off2 + bytewidth(UOffsetTFlags), UOffsetTFlags)
  IN  Relative(Prep(b, bytewidth(UOffsetTFlags), 0))

\* Builder.PrependVOffsetT
PrependVOffsetT(b, x) == Prepend(b, VOffsetTFlags, x)

RECURSIVE vtableEqualFrom(_, _, _, _)
\* the loop of vtableEqual from index i (0-based) on
vtableEqualFrom(a, objectStart, bb, i) ==
  IF i >= Len(a) THEN TRUE
  ELSE LET x == Get(VOffsetTFlags, bb, i * bytewidth(VOffsetTFlags))
           elem == a[i + 1]
       IN  IF x = 0 /\ elem = 0
             THEN vtableEqualFrom(a, objectStart, bb, i + 1)
             ELSE IF x # objectStart - elem THEN FALSE
                  ELSE vtableEqualFrom(a, objectStart, bb, i + 1)

\* a faulty vtableEqual, which C2 must tell from the code's: vtables of the
\* same length are taken as equal
vtableEqualByLength(a, objectStart, bb) ==
  Len(a) * bytewidth(VOffsetTFlags) = Len(bb)

\* a faulty vtableEqual, which C3 must tell from the code's: no two vtables
\* are taken as equal
vtableNeverEqual(a, objectStart, bb) == FALSE

\* vtableEqual(a, objectStart, b)
vtableEqual(a, objectStart, bb) ==
  IF Len(a) * bytewidth(VOffsetTFlags) # Len(bb) THEN FALSE
  ELSE vtableEqualFrom(a, objectStart, bb, 0)

\* the field region of the vtable written at Offset-from-tail vt2Offset:
\* memoryview(Bytes)[vt2Start + metadata : vt2End] in WriteVtable
WrittenVtable(b, vt2Offset) ==
  LET vt2Start == Len(b.Bytes) - vt2Offset
      vt2Len == Get(VOffsetTFlags, b.Bytes, vt2Start)
      metadata == VtableMetadataFields * bytewidth(VOffsetTFlags)
  IN  Slice(b.Bytes, vt2Start + metadata, vt2Start + vt2Len)

\* a faulty search, which C17 must tell from the code's: the vtable written
\* last is taken without comparing it
FindVtableLast(b, objectOffset, i) ==
  IF i = 0 THEN NoInt ELSE b.vtables[i]

RECURSIVE FindVtable(_, _, _)
\* the search of WriteVtable through reversed(vtables), from index i down:
\* the first vt2Offset whose vtable equals the current one, NoInt for None
FindVtable(b, objectOffset, i) ==
  IF i = 0 THEN NoInt
  ELSE IF vtableEqual(b.current_vtable, objectOffset,
                      WrittenVtable(b, b.vtables[i]))
         THEN b.vtables[i]
         ELSE FindVtable(b, objectOffset, i - 1)

RECURSIVE WriteFieldsSkippingZeros(_, _, _)
\* the loop writing only the slots that were given
WriteFieldsSkippingZeros(b, objectOffset, i) ==
  IF i = 0 THEN b
  ELSE LET off == b.current_vtable[i]
       IN  WriteFieldsSkippingZeros(
             IF off # 0 THEN PrependVOffsetT(b, objectOffset - off) ELSE b,
             objectOffset, i - 1)

RECURSIVE WriteFields(_, _, _)
\* the loop of WriteVtable over reversed(current_vtable), from index i down
WriteFields(b, objectOffset, i) ==
  IF i = 0 THEN b
  ELSE LET off == b.current_vtable[i]
       IN  WriteFields(
             PrependVOffsetT(b, IF off # 0 THEN objectOffset - off ELSE off),
             objectOffset, i - 1)

\* Builder.WriteVtable
WriteVtable(b) ==
  LET \* the new vtable is written: point the object at it and remember it
      Remember(b4, objectOffset) ==
        IF ~Ok(b4) THEN b4
        ELSE [b4 EXCEPT
                !.Bytes = Write(SOffsetTFlags, @, Len(b4.Bytes) - objectOffset,
                                Offset(b4) - objectOffset),
                !.vtables = Append(@, Offset(b4)),
                !.current_vtable = NoVtable,
                !.ret = objectOffset]
      \* no equal vtable: write the fields, the object size, the vtable size
      WriteNew(b1, objectOffset) ==
        Remember(
          PrependVOffsetT(
            PrependVOffsetT(
              WriteFields(b1, objectOffset, Len(b1.current_vtable)),
              objectOffset - b1.objectEnd),
            (Len(b1.current_vtable) + VtableMetadataFields)
              * bytewidth(VOffsetTFlags)),
          objectOffset)
      \* an equal vtable: move head back to the object and point it there
      Reuse(b1, objectOffset, existingVtable) ==
        LET head == Len(b1.Bytes) - objectOffset
        IN  [b1 EXCEPT
               !.head = head,
               !.Bytes = Write(SOffsetTFlags, @, head,
                               existingVtable - objectOffset),
               !.current_vtable = NoVtable,
               !.ret = objectOffset]
      Choose(b1, objectOffset, existingVtable) ==
        IF existingVtable = NoInt THEN WriteNew(b1, objectOffset)
        ELSE Reuse(b1, objectOffset, existingVtable)
      Search(b1) ==
        IF ~Ok(b1) THEN b1
        ELSE Choose(b1, Offset(b1), FindVtable(b1, Offset(b1), Len(b1.vtables)))
  IN  Search(PrependSOffsetTRelative(b, 0))

\* a faulty EndObject, which C13 must tell from the code's: it does not test
\* whether an object is in progress
EndObjectUnchecked(b) == WriteVtable(b)

\* Builder.EndObject
EndObject(b) ==
  IF b.current_vtable = NoVtable THEN Raise(b, "NotInObjectError")
  ELSE WriteVtable(b)

\* Builder.EndVector
EndVector(b, vectorNumElems) ==
  LET Return(b1) == IF ~Ok(b1) THEN b1 ELSE [b1 EXCEPT !.ret = Offset(b1)]
  IN  Return(Place(b, vectorNumElems, UOffsetTFlags))

\* StartVector without the Prep for the length word
StartVectorUnaligned(b, elemSize, numElems, alignment) ==
  LET Return(b3) == IF ~Ok(b3) THEN b3 ELSE [b3 EXCEPT !.ret = Offset(b3)]
  IN  Return(Prep(assertNotNested(b), alignment, elemSize * numElems))

\* Builder.StartVector
StartVector(b, elemSize, numElems, alignment) ==
  LET Return(b3) == IF ~Ok(b3) THEN b3 ELSE [b3 EXCEPT !.ret = Offset(b3)]
  IN  Return(Prep(Prep(assertNotNested(b), bytewidth("uint32"),
                       elemSize * numElems),
                  alignment, elemSize * numElems))

\* what CreateString is passed that is neither str nor bytes
NonString == <<-1>>

\* CreateString without the terminating NUL byte
CreateStringUnterminated(b, s) ==
  LET l == Len(s)
      Copy(b2) ==
        IF ~Ok(b2) THEN b2
        ELSE LET head == b2.head - l
             IN  EndVector([b2 EXCEPT
                              !.head = head,
                              !.Bytes = SubSeq(@, 1, head) \o s
                                          \o SubSeq(@, head + l + 1, Len(@))],
                           l)
      Encode(b1) ==
        IF ~Ok(b1) THEN b1
        ELSE IF s = NonString THEN Raise(b1, "TypeError")
        ELSE Copy(Prep(b1, bytewidth(UOffsetTFlags), l))
  IN  Encode(assertNotNested(b))

\* Builder.CreateString, s the bytes of the string
CreateString(b, s) ==
  LET l == Len(s)
      \* self.head -= l; self.Bytes[head:head + l] = x; EndVector(len(x))
      Copy(b2) ==
        IF ~Ok(b2) THEN b2
        ELSE LET head == b2.head - l
             IN  EndVector([b2 EXCEPT
                              !.head = head,
                              !.Bytes = SubSeq(@, 1, head) \o s
                                          \o SubSeq(@, head + l + 1, Len(@))],
                           l)
      Encode(b1) ==
        IF ~Ok(b1) THEN b1
        ELSE IF s = NonString THEN Raise(b1, "TypeError")
        ELSE Copy(Pad(Prep(b1, bytewidth(UOffsetTFlags), l + 1), 1))
  IN  Encode(assertNotNested(b))

\* Builder.Finish
Finish(b, rootTable) ==
  LET Return(b1) == IF ~Ok(b1) THEN b1 ELSE [b1 EXCEPT !.ret = b1.head]
  IN  Return(PrependUOffsetTRelative(
               Prep(b, b.minalign, bytewidth(UOffsetTFlags)), rootTable))

\* PrependSlot without the test against the default
PrependSlotAlways(b, k, o, x, d) == Slot(Prepend(b, k, x), o)

\* Builder.PrependSlot and the Prepend<K>Slot methods
PrependSlot(b, k, o, x, d) ==
  IF x # d THEN Slot(Prepend(b, k, x), o) ELSE b

\* Builder.PrependUOffsetTRelativeSlot
PrependUOffsetTRelativeSlot(b, o, x, d) ==
  IF x # d THEN Slot(PrependUOffsetTRelative(b, x), o) ELSE b

\* PrependStructSlot without assertNested
PrependStructSlotUnchecked(b, v, x, d) == IF x # d THEN Slot(b, v) ELSE b

\* Builder.PrependStructSlot
PrependStructSlot(b, v, x, d) ==
  IF x # d THEN Slot(assertNested(b, x), v) ELSE b

(***************************************************************************)
(* table.py: class Table, a record [Bytes, Pos].                           *)
(***************************************************************************)
\* Table.GetRoot; Table.__init__ enforces a UOffsetT position
GetRoot(buf, offset) ==
  [Bytes |-> buf, Pos |-> Get(UOffsetTFlags, buf, offset) + offset]

\* Table.Offset without the test against the vtable's length
TableOffsetUnchecked(t, vtableOffset) ==
  Get(VOffsetTFlags, t.Bytes,
      t.Pos - Get(SOffsetTFlags, t.Bytes, t.Pos) + vtableOffset)

\* Table.Offset
TableOffset(t, vtableOffset) ==
  LET vtable == t.Pos - Get(SOffsetTFlags, t.Bytes, t.Pos)
      vtableEnd == Get(VOffsetTFlags, t.Bytes, vtable)
  IN  IF vtableOffset < vtableEnd
        THEN Get(VOffsetTFlags, t.Bytes, vtable + vtableOffset)
        ELSE 0

\* Table.Get
TableGet(t, k, off) == Get(k, t.Bytes, off + t.Pos)

\* Table.GetSlot
GetSlot(t, k, slot, d) ==
  LET off == TableOffset(t, slot)
  IN  IF off = 0 THEN d ELSE TableGet(t, k, off)

\* Table.String
String(t, off) ==
  LET off1 == off + TableGet(t, UOffsetTFlags, off)
      length == TableGet(t, UOffsetTFlags, off1)
      start == t.Pos + off1 + bytewidth(UOffsetTFlags)
  IN  Slice(t.Bytes, start, start + length)

(***************************************************************************)
(* The state: a Builder and its caller.                                    *)
(*   b           the Builder                                               *)
(*   ref         a Builder constructed when b was last Reset (or           *)
(*               constructed), given the same calls as b since             *)
(*   initialSize the initialSize b was constructed with                    *)
(*   last        the last call: [op, k, args]                              *)
(*   cur         the calls made on the object in progress and what its     *)
(*               slots were given                                          *)
(*   objs        the objects EndObject returned since the last Reset       *)
(*   vec         the arguments of the StartVector not yet ended            *)
(*   rets        the Offsets returned to the caller since the last Reset   *)
(*   strs        the <<Offset, bytes>> of the strings CreateString returned  *)
(*               since the last Reset                                      *)
(*   nops        the number of calls made                                  *)
(*   sz          the sizes of a Builder whose buffer may reach 2^31 bytes: *)
(*               len(Bytes), head and minalign, without the bytes          *)
(***************************************************************************)
VARIABLES b, ref, initialSize, last, cur, objs, vec, rets, strs, nops, sz

vars == <<b, ref, initialSize, last, cur, objs, vec, rets, strs, nops, sz>>

\* initialSize of the explored Builders: growth from an empty and from a
\* small buffer
InitialSizes == {0, 8}

\* the numfields the caller passes to StartObject
NumFieldsArgs == {0, 1, 2}

\* the scalars the caller prepends outside slots
PrependArgs ==
  {[k |-> "uint8", x |-> 255], [k |-> "int32", x |-> -2],
   [k |-> "int64", x |-> 258]}

\* the (kind, value, default) the caller passes to Prepend<K>Slot
SlotArgs ==
  {[k |-> "int8", x |-> -3, d |-> 2], [k |-> "int32", x |-> 7, d |-> 42],
   [k |-> "int32", x |-> 42, d |-> 42]}

\* the (elemSize, numElems, alignment) of the vectors the caller starts
VectorArgs == {<<1, 2, 1>>, <<8, 1, 8>>}

\* the byte strings the caller creates
StringArgs == {<<>>, <<104, 105>>}

NoCall == [op |-> "", k |-> "", args |-> <<>>]
NoCur == [fields |-> <<>>, calls |-> <<>>]
NoVec == <<>>
Unset == [st |-> "unset", k |-> "", x |-> 0, d |-> 0]

InObject == b.current_vtable # NoVtable

\* the slot numbers the caller uses: those of the object in progress
SlotArgsOf(bb) ==
  IF bb.current_vtable = NoVtable THEN {0}
  ELSE 0..(Len(bb.current_vtable) - 1)

\* the Builder after the call c
Exec(bb, c) ==
  CASE c.op = "StartObject" -> StartObject(Call(bb), c.args[1])
    [] c.op = "Prepend" -> Prepend(Call(bb), c.k, c.args[1])
    [] c.op = "PrependSlot" ->
         PrependSlot(Call(bb), c.k, c.args[1], c.args[2], c.args[3])
    [] c.op = "PrependUOffsetTRelativeSlot" ->
         PrependUOffsetTRelativeSlot(Call(bb), c.args[1], c.args[2], c.args[3])
    [] c.op = "PrependStructSlot" ->
         PrependStructSlot(Call(bb), c.args[1], c.args[2], c.args[3])
    [] c.op = "EndObject" -> EndObject(Call(bb))
    [] c.op = "StartVector" ->
         StartVector(Call(bb), c.args[1], c.args[2], c.args[3])
    [] c.op = "EndVector" -> EndVector(Call(bb), c.args[1])
    [] c.op = "CreateString" -> CreateString(Call(bb), c.args)
    [] c.op = "Finish" -> Finish(Call(bb), c.args[1])
    [] c.op = "Slot" -> Slot(Call(bb), c.args[1])
    [] c.op = "PrependUOffsetTRelative" ->
         PrependUOffsetTRelative(Call(bb), c.args[1])
    [] c.op = "PrependSOffsetTRelative" ->
         PrependSOffsetTRelative(Call(bb), c.args[1])
    [] c.op = "Prep" -> Prep(Call(bb), c.args[1], c.args[2])
    [] c.op = "Reset" -> Reset([Call(bb) EXCEPT !.sizes = {}])

\* the Offset-from-tail of the vtable the object at Offset-from-tail off
\* points to: its position minus the SOffsetT stored there
VtableOf(bb, off) ==
  LET pos == Len(bb.Bytes) - off
  IN  Len(bb.Bytes) - (pos - Get(SOffsetTFlags, bb.Bytes, pos))

\* what the slots of the object in progress were given, after the call c
\* succeeded
FieldsAfter(fields, c) ==
  IF c.op \notin {"PrependSlot", "PrependUOffsetTRelativeSlot",
                  "PrependStructSlot"}
       \/ c.args[1] < 0 \/ c.args[1] >= Len(fields)
    THEN fields
    ELSE LET i == c.args[1] + 1
             x == c.args[2]
             d == c.args[3]
             st == CASE c.op = "PrependSlot" -> "written"
                     [] c.op = "PrependUOffsetTRelativeSlot" -> "uoffset"
                     [] c.op = "PrependStructSlot" -> "struct"
         IN  IF x # d
               THEN [fields EXCEPT ![i] = [st |-> st, k |-> c.k, x |-> x, d |-> d]]
               ELSE IF fields[i].st = "unset"
                      THEN [fields EXCEPT
                              ![i] = [st |-> "elided", k |-> c.k, x |-> x, d |-> d]]
                      ELSE fields

\* the caller's record of the object EndObject returned
ObjectOf(nb) ==
  [n      |-> Len(b.current_vtable),
   start  |-> b.objectEnd,
   calls  |-> cur.calls,
   fields |-> cur.fields,
   off    |-> nb.ret,
   vt     |-> VtableOf(nb, nb.ret),
   nvt    |-> Len(nb.vtables),
   reused |-> Len(nb.vtables) = Len(b.vtables)]

\* one call c on b (and on ref), and what the caller records of it
Do(c) ==
  LET After(nb) ==
        /\ b' = nb
        /\ ref' = IF c.op = "Reset" THEN Builder(initialSize) ELSE Exec(ref, c)
        /\ last' = c
        /\ cur' =
             CASE c.op = "Reset" -> NoCur
               [] c.op = "StartObject" /\ Ok(nb) ->
                    [fields |-> [i \in 1..c.args[1] |-> Unset], calls |-> <<>>]
               [] c.op = "EndObject" /\ Ok(nb) -> NoCur
               [] OTHER ->
                    IF ~InObject THEN cur
                    ELSE [calls  |-> Append(cur.calls,
                                            [op |-> c.op, k |-> c.k,
                                             args |-> c.args, err |-> nb.err]),
                          fields |-> IF Ok(nb) THEN FieldsAfter(cur.fields, c)
                                     ELSE cur.fields]
        /\ objs' =
             CASE c.op = "Reset" -> <<>>
               [] c.op = "EndObject" /\ Ok(nb) -> Append(objs, ObjectOf(nb))
               [] OTHER -> objs
        /\ vec' =
             CASE c.op = "Reset" -> NoVec
               [] c.op = "StartVector" /\ Ok(nb) ->
                    <<c.args[1], c.args[2], c.args[3], nb.ret>>
               [] c.op = "EndVector" -> NoVec
               [] OTHER -> vec
        /\ rets' =
             CASE c.op = "Reset" -> {}
               [] c.op \in {"EndObject", "EndVector", "CreateString"} /\ Ok(nb) ->
                    rets \cup {nb.ret}
               [] OTHER -> rets
        /\ strs' =
             CASE c.op = "Reset" -> {}
               [] c.op = "CreateString" /\ Ok(nb) -> strs \cup {<<nb.ret, c.args>>}
               [] OTHER -> strs
        /\ nops' = nops + 1
        /\ UNCHANGED <<initialSize, sz>>
  IN  After(Exec(b, c))

\* no Builder constructed yet
NoSizes ==
  [made |-> FALSE, len |-> WInt(0), head |-> WInt(0), minalign |-> 1,
   err |-> "none"]

\* after Builder(n)
InitWith(n) ==
  /\ initialSize = n
  /\ b = Builder(n)
  /\ ref = Builder(n)
  /\ last = NoCall
  /\ cur = NoCur
  /\ objs = <<>>
  /\ vec = NoVec
  /\ rets = {}
  /\ strs = {}
  /\ nops = 0
  /\ sz = NoSizes

Init == \E n \in InitialSizes : InitWith(n)

\* after Builder()
InitDefault == InitWith(DefaultInitialSize)

(***************************************************************************)
(* The calls.  Idle, InObject and InVector are the states of the caller's  *)
(* state machine; the Builder itself only knows whether an object is in    *)
(* progress (current_vtable is not None).                                  *)
(***************************************************************************)
InVector == vec # NoVec
Idle == ~InObject /\ ~InVector

StartObjectOp ==
  \E n \in NumFieldsArgs :
    Do([op |-> "StartObject", k |-> "", args |-> <<n>>])

PrependOp ==
  \E a \in PrependArgs : Do([op |-> "Prepend", k |-> a.k, args |-> <<a.x>>])

PrependSlotOp ==
  \E o \in SlotArgsOf(b) : \E a \in SlotArgs :
    Do([op |-> "PrependSlot", k |-> a.k, args |-> <<o, a.x, a.d>>])

\* a scalar slot the object in progress was not given yet, as generated
\* object code gives each slot at most once
PrependSlotOnceOp ==
  \E o \in SlotArgsOf(b) : \E a \in SlotArgs :
    /\ InObject
    /\ cur.fields[o + 1].st = "unset"
    /\ Do([op |-> "PrependSlot", k |-> a.k, args |-> <<o, a.x, a.d>>])

PrependUOffsetTRelativeSlotOp ==
  \E o \in SlotArgsOf(b) : \E x \in rets \cup {0} :
    Do([op |-> "PrependUOffsetTRelativeSlot", k |-> "", args |-> <<o, x, 0>>])

\* a struct slot given the current Offset (the struct is inline) or 0
PrependStructSlotOp ==
  \E o \in SlotArgsOf(b) : \E x \in {0, Offset(b)} :
    Do([op |-> "PrependStructSlot", k |-> "", args |-> <<o, x, 0>>])

\* a struct slot given an Offset that is not the current one
PrependStructSlotElsewhereOp ==
  \E o \in SlotArgsOf(b) :
    Do([op |-> "PrependStructSlot", k |-> "",
        args |-> <<o, Offset(b) + 4, 0>>])

\* Slot called by itself
SlotOp ==
  \E o \in SlotArgsOf(b) : Do([op |-> "Slot", k |-> "", args |-> <<o>>])

\* the targets given to the relative offset writers: written bytes (0, the
\* current Offset) and bytes not written yet (past the current Offset)
TargetArgs == {0, Offset(b), Offset(b) + 1, Offset(b) + 4}

PrependUOffsetTRelativeOp ==
  \E t \in TargetArgs :
    Do([op |-> "PrependUOffsetTRelative", k |-> "", args |-> <<t>>])

PrependSOffsetTRelativeOp ==
  \E t \in TargetArgs :
    Do([op |-> "PrependSOffsetTRelative", k |-> "", args |-> <<t>>])

EndObjectOp == Do([op |-> "EndObject", k |-> "", args |-> <<>>])

StartVectorOp ==
  \E v \in VectorArgs : Do([op |-> "StartVector", k |-> "", args |-> v])

\* one element of the started vector: a scalar of elemSize bytes, while
\* fewer than elemSize * numElems bytes are written
ElementOp ==
  /\ InVector
  /\ Offset(b) < vec[4] + vec[1] * vec[2]
  /\ \E a \in PrependArgs :
       /\ bytewidth(a.k) = vec[1]
       /\ Do([op |-> "Prepend", k |-> a.k, args |-> <<a.x>>])

\* whether the elements of the started vector are written: elemSize *
\* numElems bytes since StartVector
ElementsWritten == InVector /\ Offset(b) = vec[4] + vec[1] * vec[2]

EndVectorOp ==
  Do([op |-> "EndVector", k |-> "",
      args |-> <<IF InVector THEN vec[2] ELSE 0>>])

CreateStringOp ==
  \E s \in StringArgs : Do([op |-> "CreateString", k |-> "", args |-> s])

\* the roots the caller finishes on: an object EndObject returned, Offset 0
\* when there is none
RootArgs ==
  IF objs = <<>> THEN {0} ELSE {objs[i].off : i \in 1..Len(objs)}

FinishOp ==
  \E r \in RootArgs :
    Do([op |-> "Finish", k |-> "", args |-> <<r>>])

ResetOp == Do([op |-> "Reset", k |-> "", args |-> <<>>])

\* any sequence of at most MaxOps calls the state machine allows
Next ==
  \/ nops < MaxOps /\ Idle /\ StartObjectOp
  \/ nops < MaxOps /\ Idle /\ PrependOp
  \/ nops < MaxOps /\ Idle /\ StartVectorOp
  \/ nops < MaxOps /\ Idle /\ CreateStringOp
  \/ nops < MaxOps /\ Idle /\ FinishOp
  \/ nops < MaxOps /\ InObject /\ PrependOp
  \/ nops < MaxOps /\ InObject /\ PrependSlotOp
  \/ nops < MaxOps /\ InObject /\ PrependUOffsetTRelativeSlotOp
  \/ nops < MaxOps /\ InObject /\ PrependStructSlotOp
  \/ nops < MaxOps /\ InObject /\ EndObjectOp
  \/ nops < MaxOps /\ ElementOp
  \/ nops < MaxOps /\ ElementsWritten /\ EndVectorOp
  \/ nops < MaxOps /\ ResetOp

Spec == Init /\ [][Next]_vars

\* the calls of generated object code: objects of scalar slots built one
\* after the other, then Finish on one of them
Building == nops < MaxObjOps /\ last.op # "Finish"

NextObj ==
  \/ Building /\ ~InObject /\ StartObjectOp
  \/ Building /\ PrependSlotOnceOp
  \/ Building /\ InObject /\ EndObjectOp
  \/ Building /\ ~InObject /\ objs # <<>> /\ FinishOp

SpecObj == InitDefault /\ [][NextObj]_vars

\* any sequence of at most MaxMisuseOps calls, allowed by the state machine
\* or not
NextMisuse ==
  \/ nops < MaxMisuseOps /\ StartObjectOp
  \/ nops < MaxMisuseOps /\ PrependOp
  \/ nops < MaxMisuseOps /\ PrependSlotOp
  \/ nops < MaxMisuseOps /\ PrependUOffsetTRelativeSlotOp
  \/ nops < MaxMisuseOps /\ PrependStructSlotOp
  \/ nops < MaxMisuseOps /\ PrependStructSlotElsewhereOp
  \/ nops < MaxMisuseOps /\ EndObjectOp
  \/ nops < MaxMisuseOps /\ StartVectorOp
  \/ nops < MaxMisuseOps /\ EndVectorOp
  \/ nops < MaxMisuseOps /\ CreateStringOp
  \/ nops < MaxMisuseOps /\ FinishOp
  \/ nops < MaxMisuseOps /\ ResetOp
  \/ nops < MaxMisuseOps /\ SlotOp
  \/ nops < MaxMisuseOps /\ PrependUOffsetTRelativeOp
  \/ nops < MaxMisuseOps /\ PrependSOffsetTRelativeOp

SpecMisuse == Init /\ [][NextMisuse]_vars

(***************************************************************************)
(* The sizes of a Builder near MAX_BUFFER_SIZE: __init__, growByteBuffer,  *)
(* Prep and the writes, on len(Bytes), head and minalign alone, in wide    *)
(* integers.                                                               *)
(***************************************************************************)
\* the initialSize passed to Builder: -1, 0, 1024, 2^30, 2^31 - 1, 2^31,
\* 2^31 + 1
SizeArgs ==
  {WInt(-1), WInt(0), WInt(1024), <<16384, 0>>, <<32767, 65535>>,
   <<32768, 0>>, <<32768, 1>>}

\* the lengths of the strings created: 3, 1000, 2^30
LengthArgs == {WInt(3), WInt(1000), <<16384, 0>>}

\* Builder.__init__ on the sizes
SizesInit(n) ==
  IF ~(WLeq(WInt(0), n) /\ WLeq(n, MAX_BUFFER_SIZE))
    THEN [NoSizes EXCEPT !.err = "BuilderSizeError"]
    ELSE [made |-> TRUE, len |-> n, head |-> n, minalign |-> 1, err |-> "none"]

\* growByteBuffer on the sizes, refusing only a size above MAX_BUFFER_SIZE
SizesGrowStrict(z, freeSize) ==
  LET oldSize == z.len
      newSize == WMax(WInt(MinGrowSize),
                      WMax(WAdd(oldSize, oldSize),
                           WSub(WAdd(oldSize, freeSize), z.head)))
  IN  IF WLess(MAX_BUFFER_SIZE, newSize)
        THEN [z EXCEPT !.err = "BuilderSizeError"]
        ELSE [z EXCEPT !.len = newSize,
                       !.head = WAdd(z.head, WSub(newSize, oldSize))]

\* Builder.growByteBuffer on the sizes
SizesGrow(z, freeSize) ==
  LET oldSize == z.len
      newSize == WMax(WInt(MinGrowSize),
                      WMax(WAdd(oldSize, oldSize),
                           WSub(WAdd(oldSize, freeSize), z.head)))
  IN  IF WLeq(MAX_BUFFER_SIZE, newSize)
        THEN [z EXCEPT !.err = "BuilderSizeError"]
        ELSE [z EXCEPT !.len = newSize,
                       !.head = WAdd(z.head, WSub(newSize, oldSize))]

\* Builder.Prep on the sizes; the bits of alignSize are those of the low
\* 16 bits of the sum
SizesPrep(z, size, additionalBytes) ==
  IF z.err # "none" THEN z
  ELSE
    LET z1 == IF size > z.minalign THEN [z EXCEPT !.minalign = size] ELSE z
        alignSize ==
          BitAnd(NegBits(WAdd(WSub(z.len, z.head), additionalBytes)[2]),
                 size - 1)
        totalSize == WAdd(WInt(alignSize + size), additionalBytes)
        z2 == IF WLess(z1.head, totalSize) THEN SizesGrow(z1, totalSize) ELSE z1
    IN  IF z2.err # "none" THEN z2
        ELSE [z2 EXCEPT !.head = WSub(z2.head, WInt(alignSize))]

\* the head after a write of n bytes (Place, Pad, the copy of CreateString)
SizesWrite(z, n) ==
  IF z.err # "none" THEN z ELSE [z EXCEPT !.head = WSub(z.head, n)]

SizeStep(z) ==
  /\ sz' = z
  /\ nops' = nops + 1
  /\ UNCHANGED <<b, ref, initialSize, last, cur, objs, vec, rets, strs>>

\* Builder(n)
ConstructOp ==
  /\ ~sz.made
  /\ \E n \in SizeArgs : SizeStep(SizesInit(n))

\* Prepend<K>(x) for a kind of the given width
SizePrependOp ==
  /\ sz.made
  /\ \E w \in {1, 4, 8} :
       SizeStep(SizesWrite(SizesPrep([sz EXCEPT !.err = "none"], w, WInt(0)),
                           WInt(w)))

\* CreateString(s) for a string of the given length
SizeCreateStringOp ==
  /\ sz.made
  /\ \E l \in LengthArgs :
       SizeStep(SizesWrite(
                  SizesPrep([sz EXCEPT !.err = "none"],
                            bytewidth(UOffsetTFlags), WAdd(l, WInt(1))),
                  WAdd(l, WInt(1 + bytewidth(UOffsetTFlags)))))

\* Reset()
SizeResetOp ==
  /\ sz.made
  /\ SizeStep([sz EXCEPT !.head = sz.len, !.minalign = 1, !.err = "none"])

NextSize ==
  \/ nops < MaxSizeOps /\ ConstructOp
  \/ nops < MaxSizeOps /\ SizePrependOp
  \/ nops < MaxSizeOps /\ SizeCreateStringOp
  \/ nops < MaxSizeOps /\ SizeResetOp

SpecSize == InitDefault /\ [][NextSize]_vars

(***************************************************************************)
(* growByteBuffer called by itself on the sizes of a Builder: after the    *)
(* construction at most MaxGrowOps - 1 calls of growByteBuffer and of      *)
(* writes that move head.                                                  *)
(***************************************************************************)
\* the freeSize passed to growByteBuffer: 0, 1, 2000, 2^30, 2^31 - 1, 2^31
GrowArgs ==
  {WInt(0), WInt(1), WInt(2000), <<16384, 0>>, <<32767, 65535>>, <<32768, 0>>}

\* one call c on the sizes
SizeCall(z, c) ==
  /\ sz' = z
  /\ last' = c
  /\ nops' = nops + 1
  /\ UNCHANGED <<b, ref, initialSize, cur, objs, vec, rets, strs>>

\* growByteBuffer(freeSize)
GrowOp ==
  /\ sz.made
  /\ \E d \in GrowArgs :
       SizeCall(SizesGrow([sz EXCEPT !.err = "none"], d),
                [op |-> "growByteBuffer", k |-> "", args |-> d])

\* Prepend<K>(x) for a kind of the given width
GrowPrependOp ==
  /\ sz.made
  /\ \E w \in {1, 8} :
       SizeCall(SizesWrite(SizesPrep([sz EXCEPT !.err = "none"], w, WInt(0)),
                           WInt(w)),
                [op |-> "Prepend", k |-> "", args |-> <<w>>])

\* CreateString(s) for a string of the given length
GrowCreateStringOp ==
  /\ sz.made
  /\ \E l \in LengthArgs :
       SizeCall(SizesWrite(
                  SizesPrep([sz EXCEPT !.err = "none"],
                            bytewidth(UOffsetTFlags), WAdd(l, WInt(1))),
                  WAdd(l, WInt(1 + bytewidth(UOffsetTFlags)))),
                [op |-> "CreateString", k |-> "", args |-> l])

NextGrow ==
  \/ nops < MaxGrowOps /\ ConstructOp
  \/ nops < MaxGrowOps /\ GrowOp
  \/ nops < MaxGrowOps /\ GrowPrependOp
  \/ nops < MaxGrowOps /\ GrowCreateStringOp

SpecGrow == InitDefault /\ [][NextGrow]_vars

(***************************************************************************)
(* Scenario S1, the minimal table: StartObject(3); root = EndObject();     *)
(* Finish(root) on a Builder just constructed with any initial size up to  *)
(* MaxS1Size.                                                              *)
(***************************************************************************)
S1Init == \E n \in 0..MaxS1Size : InitWith(n)

S1StartObjectOp ==
  /\ last = NoCall
  /\ Do([op |-> "StartObject", k |-> "", args |-> <<3>>])

S1EndObjectOp ==
  /\ last.op = "StartObject"
  /\ EndObjectOp

S1FinishOp ==
  /\ last.op = "EndObject"
  /\ Do([op |-> "Finish", k |-> "", args |-> <<b.ret>>])

NextS1 ==
  \/ S1StartObjectOp
  \/ S1EndObjectOp
  \/ S1FinishOp

SpecS1 == S1Init /\ [][NextS1]_vars

(***************************************************************************)
(* Strings: at most MaxStrOps calls that create strings, possibly after a  *)
(* byte that leaves the Offset odd, store them in the slots of objects and *)
(* finish on an object; the buffer starts empty or with 8 bytes, so that   *)
(* a string makes it grow.                                                 *)
(***************************************************************************)
\* the byte strings created: empty, "hello", and 9 bytes with a NUL and a
\* 255 inside
StrArgs ==
  {<<>>, <<104, 101, 108, 108, 111>>,
   <<97, 0, 98, 99, 100, 101, 102, 103, 255>>}

\* one byte before the first string
StrPrependOp ==
  /\ strs = {}
  /\ Do([op |-> "Prepend", k |-> "uint8", args |-> <<255>>])

StrCreateStringOp ==
  /\ Cardinality(strs) < MaxStrings
  /\ \E s \in StrArgs : Do([op |-> "CreateString", k |-> "", args |-> s])

\* a table with a string slot, after a string was created
StrStartObjectOp ==
  /\ strs # {}
  /\ \E n \in NumFieldsArgs \ {0} :
       Do([op |-> "StartObject", k |-> "", args |-> <<n>>])

NextStr ==
  \/ nops < MaxStrOps /\ Idle /\ StrPrependOp
  \/ nops < MaxStrOps /\ Idle /\ StrCreateStringOp
  \/ nops < MaxStrOps /\ Idle /\ StrStartObjectOp
  \/ nops < MaxStrOps /\ InObject /\ PrependUOffsetTRelativeSlotOp
  \/ nops < MaxStrOps /\ InObject /\ EndObjectOp
  \/ nops < MaxStrOps /\ Idle /\ objs # <<>> /\ FinishOp

SpecStr == Init /\ [][NextStr]_vars

(***************************************************************************)
(* Vectors: at most MaxVecOps calls that write scalars, start a vector,    *)
(* write its elements and end it.                                          *)
(***************************************************************************)
\* the (elemSize, numElems, alignment) of the vectors: empty, three bytes,
\* two int32, one int64
VecArgs == {<<1, 0, 1>>, <<1, 3, 1>>, <<4, 2, 4>>, <<8, 1, 8>>}

VecStartVectorOp ==
  \E v \in VecArgs : Do([op |-> "StartVector", k |-> "", args |-> v])

NextVec ==
  \/ nops < MaxVecOps /\ Idle /\ PrependOp
  \/ nops < MaxVecOps /\ Idle /\ VecStartVectorOp
  \/ nops < MaxVecOps /\ ElementOp
  \/ nops < MaxVecOps /\ ElementsWritten /\ EndVectorOp

SpecVec == Init /\ [][NextVec]_vars

(***************************************************************************)
(* Scalars at and past the limits of their kind: at most MaxRangeOps calls *)
(* of Prepend<K> for the integer kinds whose limits TLC represents.        *)
(***************************************************************************)
RangeArgs ==
  {[k |-> "uint8", x |-> v] : v \in {-1, 0, 255, 256}}
    \cup {[k |-> "int8", x |-> v] : v \in {-129, -128, 127, 128, 200}}
    \cup {[k |-> "uint16", x |-> v] : v \in {-1, 0, 65535, 65536}}
    \cup {[k |-> "int16", x |-> v] : v \in {-32769, -32768, 32767, 32768}}

RangePrependOp ==
  \E a \in RangeArgs : Do([op |-> "Prepend", k |-> a.k, args |-> <<a.x>>])

NextRange ==
  \/ nops < MaxRangeOps /\ RangePrependOp
  \/ nops < MaxRangeOps /\ last # NoCall /\ ResetOp

SpecRange == Init /\ [][NextRange]_vars

(***************************************************************************)
(* Prep called by itself: at most MaxPrepOps calls of Prep, for the sizes  *)
(* of the scalars and for a number of additional bytes that fits the       *)
(* buffer, that makes it double, or that is more than the double, and of   *)
(* Prepend<K>, which moves head.                                           *)
(***************************************************************************)
PrepSizes == {1, 2, 4, 8}

PrepAdditional == {0, 1, 5, 1100}

PrepOp ==
  \E size \in PrepSizes : \E additionalBytes \in PrepAdditional :
    Do([op |-> "Prep", k |-> "", args |-> <<size, additionalBytes>>])

NextPrep ==
  \/ nops < MaxPrepOps /\ PrepOp
  \/ nops < MaxPrepOps /\ PrependOp

SpecPrep == Init /\ [][NextPrep]_vars

(***************************************************************************)
(* Properties.                                                             *)
(***************************************************************************)
\* the byte at Offset-from-tail o
ByteAt(bb, o) == bb.Bytes[Len(bb.Bytes) - o + 1]

SetMax(S) == CHOOSE x \in S : \A y \in S : y <= x

\* the fields of the Builders x and y are the same
SameFields(x, y) ==
  /\ x.Bytes = y.Bytes
  /\ x.head = y.head
  /\ x.minalign = y.minalign
  /\ x.objectEnd = y.objectEnd
  /\ x.current_vtable = y.current_vtable
  /\ x.vtables = y.vtables

\* C1: in every reachable state of a Builder used per the state machine,
\* growth included, 0 <= head <= len(Bytes).
C1_HeadInRange == 0 <= b.head /\ b.head <= Len(b.Bytes)

\* C1's case: the buffer has grown and a vector was ended by EndVector's
\* unchecked write.
C1_Witness ==
  /\ Len(b.Bytes) > initialSize
  /\ last.op = "EndVector"
  /\ Ok(b)
  /\ b.head < Len(b.Bytes)

\* C2: after Finish on an object, the reader at GetRoot(Output(), 0) returns
\* from GetSlot(K, 4 + 2*i, d) the value slot i was written with, and d for a
\* slot that was elided or never given; also when the vtable was reused.
C2_ReaderReturnsSlots ==
  (last.op = "Finish" /\ Ok(b)) =>
    \A i \in 1..Len(objs) :
      objs[i].off = last.args[1] =>
        LET t == GetRoot(Output(b), 0)
        IN  \A s \in 1..objs[i].n :
              LET f == objs[i].fields[s]
                  slot == 4 + 2 * (s - 1)
              IN  /\ f.st \in {"written", "elided"} =>
                       GetSlot(t, f.k, slot, f.d) = f.x
                  /\ f.st = "unset" => TableOffset(t, slot) = 0

\* C2's case: the root object holds a written slot and its vtable is one an
\* earlier object wrote.
C2_Witness ==
  /\ last.op = "Finish"
  /\ Ok(b)
  /\ \E i \in 1..Len(objs) :
       /\ objs[i].off = last.args[1]
       /\ objs[i].reused
       /\ \E s \in 1..objs[i].n : objs[i].fields[s].st = "written"

\* two objects built by the same calls, none of which raised
SameObject(o1, o2) ==
  /\ o1.n = o2.n
  /\ o1.calls = o2.calls
  /\ \A c \in 1..Len(o1.calls) : o1.calls[c].err = "none"

\* the widest alignment an object uses: 4 for its SOffsetT header, or the
\* width of the widest scalar written into it
AlignOf(o) ==
  SetMax({4} \cup {bytewidth(o.fields[s].k) :
                     s \in {r \in 1..o.n : o.fields[r].st = "written"}})

\* C3 as claimed: of two identical objects built in sequence, the second
\* appends no vtable and both point to the same vtable.
C3_IdenticalObjectsShareVtable ==
  \A i \in 1..(Len(objs) - 1) :
    SameObject(objs[i], objs[i + 1]) =>
      /\ objs[i + 1].reused
      /\ objs[i + 1].vt = objs[i].vt

\* C3 as amended: of two identical objects built in sequence that start at
\* Offsets congruent modulo the widest alignment they use, the second appends
\* no vtable and both point to the same vtable.
C3_AlignedIdenticalObjectsShareVtable ==
  \A i \in 1..(Len(objs) - 1) :
    (/\ SameObject(objs[i], objs[i + 1])
     /\ objs[i].start % AlignOf(objs[i]) = objs[i + 1].start % AlignOf(objs[i]))
      => /\ objs[i + 1].reused
         /\ objs[i + 1].vt = objs[i].vt

\* C3's case: two identical objects in sequence, at congruent Offsets, with a
\* written slot.
C3_Witness ==
  \E i \in 1..(Len(objs) - 1) :
    /\ SameObject(objs[i], objs[i + 1])
    /\ objs[i].start % AlignOf(objs[i]) = objs[i + 1].start % AlignOf(objs[i])
    /\ \E s \in 1..objs[i].n : objs[i].fields[s].st = "written"
    /\ objs[i + 1].reused

\* C4 as claimed: every byte of padding Prep skipped in the last call is
\* zero, also after a Reset of a Builder that had written data.
C4_PaddingIsZero == \A o \in b.pads : ByteAt(b, o) = 0

\* C5 as claimed: after a Reset, the calls made since give the Output and
\* return the Offsets they give on a newly constructed Builder.
C5_ResetIsFresh ==
  /\ Output(b) = Output(ref)
  /\ b.err = ref.err
  /\ last.op # "Finish" => b.ret = ref.ret

\* C6 as claimed: after Finish, Offset() is a multiple of every size passed
\* to Prep since the Builder was constructed or Reset, and minalign is the
\* largest of them.
C6_FinishAlignsToStrictest ==
  (last.op = "Finish" /\ Ok(b)) =>
    /\ \A size \in b.sizes : Offset(b) % size = 0
    /\ b.minalign = SetMax(b.sizes)

\* C7: after Finish(root) with root <= Offset(), the UOffsetT at head leads
\* to the root: GetRoot(Bytes, head).Pos = len(Bytes) - root, the same through
\* Output(), and Finish returned head.
C7_FinishPointsToRoot ==
  (last.op = "Finish" /\ Ok(b)) =>
    /\ GetRoot(b.Bytes, b.head).Pos = Len(b.Bytes) - last.args[1]
    /\ GetRoot(Output(b), 0).Pos = Len(Output(b)) - last.args[1]
    /\ b.ret = b.head

\* C7's case: Finish on an object EndObject returned.
C7_Witness ==
  /\ last.op = "Finish"
  /\ Ok(b)
  /\ last.args[1] > 0
  /\ \E i \in 1..Len(objs) : objs[i].off = last.args[1]

\* C8: each growth keeps Offset() and the byte at every Offset-from-tail
\* 1..Offset().
C8_GrowthPreservesContent ==
  \A i \in 1..Len(b.grows) :
    LET g == b.grows[i]
        oldOffset == Len(g.oldBytes) - g.oldHead
    IN  /\ Len(g.newBytes) - g.newHead = oldOffset
        /\ \A o \in 1..oldOffset :
             g.newBytes[Len(g.newBytes) - o + 1]
               = g.oldBytes[Len(g.oldBytes) - o + 1]

\* C8's case: a buffer holding nonzero bytes has grown.
C8_Witness ==
  \E i \in 1..Len(b.grows) :
    \E p \in (b.grows[i].oldHead + 1)..Len(b.grows[i].oldBytes) :
      b.grows[i].oldBytes[p] # 0

\* C9 as claimed: in every state of every Builder whose construction
\* succeeded, len(Bytes) < 2^31.
C9_BufferBelowMax == sz.made => WLess(sz.len, MAX_BUFFER_SIZE)

\* C10 as claimed: Finish while an object is in progress raises an error
\* instead of writing a root pointer.
C10_FinishRequiresIdle == (last.op = "Finish" /\ InObject) => ~Ok(b)

\* C11 as claimed: StartVector called between a StartVector and its
\* EndVector raises an error.
C11_StartVectorRequiresIdle ==
  [][(InVector /\ last'.op = "StartVector") => ~Ok(b')]_vars

\* C12: StartObject, StartVector and CreateString called while an object is
\* in progress raise ObjectIsNestedError and leave Bytes, head, minalign,
\* objectEnd, current_vtable and vtables as they were.
C12_NestedCallsRaiseAndChangeNothing ==
  [][(InObject /\ last'.op \in {"StartObject", "StartVector", "CreateString"})
       => (b'.err = "ObjectIsNestedError" /\ SameFields(b', b))]_vars

\* C12's case: an object in which a nested call raised was completed by
\* EndObject.
C12_Witness ==
  /\ last.op = "EndObject"
  /\ Ok(b)
  /\ \E c \in 1..Len(objs[Len(objs)].calls) :
       /\ objs[Len(objs)].calls[c].op \in {"StartObject", "StartVector",
                                          "CreateString"}
       /\ objs[Len(objs)].calls[c].err = "ObjectIsNestedError"

\* C13: Slot and EndObject called with no object in progress raise
\* NotInObjectError and leave every field as it was; a StartObject that
\* follows a successful EndObject succeeds.
C13_NotInObjectRaisesAndChangesNothing ==
  [][/\ (~InObject /\ last'.op \in {"Slot", "EndObject"})
          => (b'.err = "NotInObjectError" /\ SameFields(b', b))
     /\ (last.op = "EndObject" /\ Ok(b) /\ last'.op = "StartObject")
          => Ok(b')]_vars

\* C13's case: an object was completed, and a following EndObject or Slot
\* raised.
C13_Witness ==
  /\ last.op \in {"Slot", "EndObject"}
  /\ b.err = "NotInObjectError"
  /\ objs # <<>>
  /\ Offset(b) > 0

\* the calls that write an offset relative to where it is written
RelativeOps == {"PrependUOffsetTRelative", "PrependSOffsetTRelative"}

\* Offset() once Prep(4, 0) has skipped its padding: the next multiple of 4
AlignedOffset == Offset(b) + BitAnd(NegBits(Offset(b)), 3)

\* C14 as claimed: PrependUOffsetTRelative(t) and PrependSOffsetTRelative(t)
\* raise OffsetArithmeticError whenever t > Offset() when they are called.
C14_TargetPastHeadRaises ==
  [][(last'.op \in RelativeOps /\ last'.args[1] > Offset(b))
       => b'.err = "OffsetArithmeticError"]_vars

\* C14 as amended: they raise OffsetArithmeticError whenever t is greater
\* than Offset() rounded up to a multiple of 4, which is Offset() after the
\* padding of their Prep(4, 0); a smaller t is accepted.
C14_TargetPastAlignedHeadRaises ==
  [][last'.op \in RelativeOps
       => (b'.err = "OffsetArithmeticError" <=> last'.args[1] > AlignedOffset)]_vars

\* C14's case: a target past the written bytes was refused.
C14_Witness ==
  /\ last.op \in RelativeOps
  /\ b.err = "OffsetArithmeticError"
  /\ last.args[1] > Offset(b)
  /\ Offset(b) > 0

\* C15: the field-offset regions of any two entries of vtables differ.
C15_VtablesPairwiseDistinct ==
  \A i \in 1..Len(b.vtables) : \A j \in 1..Len(b.vtables) :
    i # j => WrittenVtable(b, b.vtables[i]) # WrittenVtable(b, b.vtables[j])

\* C15's case: two vtables of the same number of slots are recorded, one
\* of them of an object with a written slot.
C15_Witness ==
  \E i \in 1..Len(b.vtables) : \E j \in 1..Len(b.vtables) :
    /\ i # j
    /\ Len(WrittenVtable(b, b.vtables[i])) = Len(WrittenVtable(b, b.vtables[j]))
    /\ \E p \in 1..Len(WrittenVtable(b, b.vtables[i])) :
         WrittenVtable(b, b.vtables[i])[p] # 0

\* the object byte-size field of the vtable at Offset-from-tail vt
ObjectSizeField(bb, vt) ==
  Get(VOffsetTFlags, bb.Bytes, Len(bb.Bytes) - vt + bytewidth(VOffsetTFlags))

\* C16 as claimed: the object byte-size field of the vtable an object points
\* to is objectOffset - objectEnd of that object, whether the vtable was
\* written for it or reused.
C16_VtableHoldsObjectSize ==
  \A i \in 1..Len(objs) :
    ObjectSizeField(b, VtableOf(b, objs[i].off)) = objs[i].off - objs[i].start

\* the SOffsetT stored at the head of the object at Offset-from-tail off
HeaderOf(bb, off) == Get(SOffsetTFlags, bb.Bytes, Len(bb.Bytes) - off)

\* C17: the header of every object of N slots leads to an entry of vtables
\* whose size field is (N + 2) * 2; the SOffsetT is positive when the vtable
\* was written for the object and negative when it was reused.
C17_HeaderLeadsToVtable ==
  \A i \in 1..Len(objs) :
    /\ \E j \in 1..Len(b.vtables) : b.vtables[j] = VtableOf(b, objs[i].off)
    /\ Get(VOffsetTFlags, b.Bytes, Len(b.Bytes) - VtableOf(b, objs[i].off))
         = (objs[i].n + VtableMetadataFields) * bytewidth(VOffsetTFlags)
    /\ objs[i].reused => HeaderOf(b, objs[i].off) < 0
    /\ ~objs[i].reused => HeaderOf(b, objs[i].off) > 0

\* C17's case: an object with slots whose vtable was reused, so that its
\* SOffsetT is negative.
C17_Witness ==
  \E i \in 1..Len(objs) :
    /\ objs[i].reused
    /\ objs[i].n >= 1
    /\ HeaderOf(b, objs[i].off) < 0

\* the vtable entry of slot number s (from 0) in the vtable at Offset-from-tail vt
VtableEntry(bb, vt, s) ==
  Get(VOffsetTFlags, bb.Bytes,
      Len(bb.Bytes) - vt + (VtableMetadataFields + s) * bytewidth(VOffsetTFlags))

\* a call that gives a slot its default value
Elision(c) ==
  /\ c.op \in {"PrependSlot", "PrependUOffsetTRelativeSlot"}
  /\ c.args[2] = c.args[3]

S1Done == last.op = "Finish" /\ Ok(b) /\ Len(objs) = 1 /\ objs[1].n = 3

\* C19 as claimed: the Output of scenario S1 is 16 bytes.
C19_S1OutputIs16Bytes == S1Done => Len(Output(b)) = 16

\* C19 amended: the Output of scenario S1 is 20 bytes: the root UOffsetT
\* (16), 2 bytes of padding, the 10-byte vtable (10, 4, 0, 0, 0) and the
\* object's SOffsetT (10).
C19_S1OutputIs20Bytes ==
  S1Done =>
    /\ Len(Output(b)) = 20
    /\ Output(b) = <<16, 0, 0, 0,  0, 0,  10, 0, 4, 0, 0, 0, 0, 0, 0, 0,
                     10, 0, 0, 0>>

\* C19's case: scenario S1 was run to its end, on a Builder whose buffer
\* had to grow on the way.
C19_Witness == S1Done /\ Len(b.Bytes) > initialSize

\* the string s is stored at Offset-from-tail off: a 4-byte length, the bytes
\* of s, one NUL byte
StoredAt(bb, off, s) ==
  LET p == Len(bb.Bytes) - off
      w == bytewidth(UOffsetTFlags)
  IN  /\ off % w = 0
      /\ Get(UOffsetTFlags, bb.Bytes, p) = Len(s)
      /\ Slice(bb.Bytes, p + w, p + w + Len(s)) = s
      /\ off - w - Len(s) >= 1
      /\ ByteAt(bb, off - w - Len(s)) = 0

\* the table Finish made the root of the Output
RootTable == GetRoot(Output(b), 0)

\* C20: every string CreateString returned is stored at a 4-aligned Offset
\* as its length, its bytes and a NUL byte; and after Finish on an object
\* whose slot 0 was given the Offset of a string s, Table.String on the
\* root's slot 0 returns s.
C20_StringRoundTrip ==
  /\ \A e \in strs : StoredAt(b, e[1], e[2])
  /\ (last.op = "Finish" /\ Ok(b)) =>
       \A i \in 1..Len(objs) : \A e \in strs :
         (/\ objs[i].off = last.args[1]
          /\ objs[i].fields[1].st = "uoffset"
          /\ objs[i].fields[1].x = e[1])
           => String(RootTable, TableOffset(RootTable, 4)) = e[2]

\* C20's case: a string of several bytes made the buffer grow, was stored
\* in slot 0 of an object, and Finish was called on that object.
C20_Witness ==
  /\ last.op = "Finish"
  /\ Ok(b)
  /\ Len(b.Bytes) > initialSize
  /\ \E i \in 1..Len(objs) : \E e \in strs :
       /\ objs[i].off = last.args[1]
       /\ objs[i].fields[1].st = "uoffset"
       /\ objs[i].fields[1].x = e[1]
       /\ Len(e[2]) >= 5
       /\ String(RootTable, TableOffset(RootTable, 4)) = e[2]

\* the vtable slot offsets a reader asks for, those of a newer schema included
ReadSlots ==
  {(VtableMetadataFields + i) * bytewidth(VOffsetTFlags) : i \in 0..MaxReadSlot}

\* C21: for the root object, whose vtable has (n + 2) * 2 bytes, Table.Offset
\* returns 0 for every slot offset at or past the vtable's size and the
\* VOffsetT stored in the vtable otherwise; GetSlot returns the default for
\* every slot the vtable does not contain.
C21_ReaderIgnoresUnknownSlots ==
  (last.op = "Finish" /\ Ok(b)) =>
    \A i \in 1..Len(objs) :
      objs[i].off = last.args[1] =>
        LET S == (objs[i].n + VtableMetadataFields) * bytewidth(VOffsetTFlags)
        IN  \A slot \in ReadSlots :
              /\ slot >= S =>
                   /\ TableOffset(RootTable, slot) = 0
                   /\ \A k \in ScalarKinds : GetSlot(RootTable, k, slot, 42) = 42
              /\ slot < S =>
                   TableOffset(RootTable, slot)
                     = Get(VOffsetTFlags, b.Bytes,
                           Len(b.Bytes) - objs[i].vt + slot)

\* C21's case: the root object has a slot that was written, which the reader
\* finds, and the reader also asks for the next slot, which its vtable does
\* not contain.
C21_Witness ==
  /\ last.op = "Finish"
  /\ Ok(b)
  /\ \E i \in 1..Len(objs) :
       /\ objs[i].off = last.args[1]
       /\ objs[i].n >= 1
       /\ objs[i].fields[objs[i].n].st = "written"
       /\ TableOffset(RootTable, (VtableMetadataFields + objs[i].n - 1) * 2) # 0
       /\ TableOffset(RootTable, (VtableMetadataFields + objs[i].n) * 2) = 0

\* C22 as claimed: a Prepend<K>(x) with x outside the range of K raises
\* TypeError.
C22_OutOfRangeRaisesTypeError ==
  (last.op = "Prepend" /\ ~valid_number(last.k, last.args[1])) =>
    b.err = "TypeError"

\* C23: inside an object PrependStructSlot(slot, x, 0) writes no byte and
\* leaves head alone; with x = 0 it changes nothing; with x # 0 and
\* x # Offset() it raises StructIsNotInlineError and leaves current_vtable
\* alone; with x = Offset() # 0 it sets current_vtable[slot] to Offset().
C23_StructSlotEmitsNothing ==
  [][(InObject /\ last'.op = "PrependStructSlot" /\ last'.args[3] = 0) =>
       LET slot == last'.args[1] + 1
           x == last'.args[2]
       IN  /\ b'.Bytes = b.Bytes
           /\ b'.head = b.head
           /\ x = 0 => (Ok(b') /\ SameFields(b', b))
           /\ (x # 0 /\ x # Offset(b)) =>
                /\ b'.err = "StructIsNotInlineError"
                /\ b'.current_vtable = b.current_vtable
           /\ (x # 0 /\ x = Offset(b)) =>
                /\ Ok(b')
                /\ b'.current_vtable
                     = [b.current_vtable EXCEPT ![slot] = Offset(b)]]_vars

\* C23's case: inside an object, after a scalar was written, the slot was
\* given the current Offset and holds it.
C23_Witness ==
  /\ last.op = "PrependStructSlot"
  /\ Ok(b)
  /\ InObject
  /\ last.args[2] = Offset(b)
  /\ Offset(b) > 0
  /\ b.current_vtable[last.args[1] + 1] = Offset(b)

\* C24: after a Prep(size, additional) that did not raise, Offset() +
\* additional is a multiple of size, size <= minalign, fewer than size bytes
\* of padding were skipped, head >= size + additional, the buffer grew at
\* most once, and what was written is where it was, from the tail.
C24_PrepAlignsAndReserves ==
  [][(last'.op = "Prep" /\ Ok(b')) =>
       LET size == last'.args[1]
           additional == last'.args[2]
       IN  /\ (Offset(b') + additional) % size = 0
           /\ size <= b'.minalign
           /\ Offset(b') - Offset(b) >= 0
           /\ Offset(b') - Offset(b) < size
           /\ b'.head >= size + additional
           /\ Len(b'.grows) <= 1
           /\ (Len(b'.grows) = 1) <=> (b.head < Offset(b') - Offset(b) + size + additional)
           /\ Slice(b'.Bytes, Len(b'.Bytes) - Offset(b), Len(b'.Bytes)) = Output(b)]_vars

\* C24's case: a Prep that had to skip padding and to grow the buffer to
\* more than its double.
C24_Witness ==
  /\ last.op = "Prep"
  /\ Ok(b)
  /\ Len(b.grows) = 1
  /\ b.pads # {}
  /\ Len(b.Bytes) > 2 * Len(b.grows[1].oldBytes)
  /\ Len(b.Bytes) > MinGrowSize
  /\ b.head >= last.args[1] + last.args[2]

\* C25: growByteBuffer(demand) on a buffer of length L with head h raises
\* BuilderSizeError and leaves L and h alone exactly when one of 1024, 2 * L
\* and L + demand - h is at least 2^31; otherwise the new length is the
\* largest of the three and head moves by the difference of the lengths.
C25_GrowthIsExact ==
  [][(sz.made /\ last'.op = "growByteBuffer") =>
       LET L == sz.len
           h == sz.head
           c2 == WAdd(L, L)
           c3 == WSub(WAdd(L, last'.args), h)
           tooBig == \/ WLeq(MAX_BUFFER_SIZE, c2)
                     \/ WLeq(MAX_BUFFER_SIZE, c3)
       IN  /\ (sz'.err = "BuilderSizeError") <=> tooBig
           /\ sz'.err \in {"none", "BuilderSizeError"}
           /\ tooBig => (sz'.len = L /\ sz'.head = h)
           /\ ~tooBig =>
                /\ WLeq(WInt(1024), sz'.len)
                /\ WLeq(c2, sz'.len)
                /\ WLeq(c3, sz'.len)
                /\ sz'.len \in {WInt(1024), c2, c3}
                /\ WLess(sz'.len, MAX_BUFFER_SIZE)
                /\ WSub(sz'.head, h) = WSub(sz'.len, L)]_vars

\* C25's case: a growth to exactly 2^31 - 1 bytes, the largest that is
\* allowed, with head moved as far as the buffer grew.
C25_Witness ==
  /\ last.op = "growByteBuffer"
  /\ sz.err = "none"
  /\ sz.len = <<32767, 65535>>
  /\ WLess(WInt(0), sz.head)

\* C26: whenever EndObject reuses a vtable, the field region of that vtable
\* has one entry for each slot of current_vtable, 0 where the slot is 0 and
\* objectOffset - current_vtable[i] elsewhere: what WriteVtable would have
\* written.  So no unset slot was matched with a non-zero entry and no set
\* slot with a zero entry.
C26_ReusedVtableIsWhatWouldBeWritten ==
  [][(InObject /\ last'.op = "EndObject" /\ Ok(b') /\ b'.vtables = b.vtables) =>
       LET objectOffset == b'.ret
           region == WrittenVtable(b', VtableOf(b', objectOffset))
           a == b.current_vtable
       IN  /\ Len(region) = Len(a) * bytewidth(VOffsetTFlags)
           /\ \A i \in 1..Len(a) :
                LET x == VtableEntry(b', VtableOf(b', objectOffset), i - 1)
                IN  /\ x = (IF a[i] = 0 THEN 0 ELSE objectOffset - a[i])
                    /\ (x = 0) <=> (a[i] = 0)]_vars

\* C26's case: EndObject reused a vtable for an object of two slots, one
\* written and one not, so that the vtable has a non-zero and a zero entry.
C26_Witness ==
  /\ last.op = "EndObject"
  /\ Ok(b)
  /\ objs # <<>>
  /\ objs[Len(objs)].reused
  /\ objs[Len(objs)].n = 2
  /\ \E s, t \in 1..2 :
       /\ objs[Len(objs)].fields[s].st = "written"
       /\ objs[Len(objs)].fields[t].st # "written"
       /\ VtableEntry(b, objs[Len(objs)].vt, s - 1) # 0
       /\ VtableEntry(b, objs[Len(objs)].vt, t - 1) = 0

\* C27: StartVector(e, n, a) leaves head >= e * n + 4 and an Offset that
\* e * n bytes later is a multiple of 4 and of a; and EndVector(n), after
\* elements of e * n bytes in all, returns an Offset that is a multiple of 4
\* and holds the length word n, directly before the first element, whose
\* Offset is a multiple of a, without growing the buffer and with head >= 0.
C27_VectorLayout ==
  [][/\ (last'.op = "StartVector" /\ Ok(b')) =>
          LET bytes == last'.args[1] * last'.args[2]
          IN  /\ b'.head >= bytes + bytewidth(UOffsetTFlags)
              /\ (Offset(b') + bytes) % bytewidth(UOffsetTFlags) = 0
              /\ (Offset(b') + bytes) % last'.args[3] = 0
              /\ b'.ret = Offset(b')
     /\ (ElementsWritten /\ last'.op = "EndVector") =>
          /\ Ok(b')
          /\ b'.ret = Offset(b')
          /\ b'.ret % bytewidth(UOffsetTFlags) = 0
          /\ Get(UOffsetTFlags, b'.Bytes, Len(b'.Bytes) - b'.ret) = vec[2]
          /\ b'.ret = Offset(b) + bytewidth(UOffsetTFlags)
          /\ Offset(b) = vec[4] + vec[1] * vec[2]
          /\ Offset(b) % vec[3] = 0
          /\ Len(b'.Bytes) = Len(b.Bytes)
          /\ b'.head >= 0
          /\ Slice(b'.Bytes, b'.head + bytewidth(UOffsetTFlags), Len(b'.Bytes))
               = Output(b)]_vars

\* C27's case: a vector of two int32 started at an odd Offset was ended: its
\* length word is 2 and lies more than 12 bytes from the tail.
C27_Witness ==
  /\ last.op = "EndVector"
  /\ Ok(b)
  /\ last.args[1] = 2
  /\ Get(UOffsetTFlags, b.Bytes, Len(b.Bytes) - b.ret) = 2
  /\ b.ret > 12
  /\ b.ret % 4 = 0

=============================================================================
